---- MODULE Spec2Model ----
(***************************************************************************)
(* The D&D party wallet ledger.  The repository holds two programs:        *)
(*   DnDwallet.py  the ledger kept in one browser session's session_state; *)
(*   app.py        the ledger kept in Supabase tables, read through        *)
(*                 st.cache_data caches shared by all browser sessions,    *)
(*                 each session running the script in a thread of its own. *)
(* A behaviour is a run of one of the two programs (variable program).     *)
(* app.py is read with the parenthesis opened at line 212 closed before    *)
(* line 216 (as given the file does not compile).                          *)
(***************************************************************************)
EXTENDS Integers, Sequences, FiniteSets, TLC

VARIABLES
    program,        \* "DnDwallet" or "app": which script is running
    now,            \* the clock: the last timestamp handed out
    acked,          \* the transactions reported successful, in order: <<character, change_cp>>
    profiles,       \* DnDwallet.py: st.session_state.profiles
    dnd_error,      \* DnDwallet.py: the st.error the last run displayed ("" when none)
    opening,        \* app.py: table wallets as the program found it
    wallets,        \* app.py: table wallets, character -> row
    transactions,   \* app.py: table transactions, in insertion order
    wallet_cache,   \* app.py: the cached value of get_wallet_data, or <<>>
    history_cache,  \* app.py: the cached value of get_history, or <<>>
    pc,             \* app.py: each session's position in its script run
    data,           \* app.py: each run's local variable data
    form,           \* app.py: each run's widget values
    result,         \* app.py: what the form handler of each session's run displayed
    codec_pc,       \* codec: which conversion was made ("none" before it)
    given,          \* codec: the argument of that conversion
    codec_cp,       \* codec: the total in copper pieces
    codec_coins     \* codec: the four-field breakdown

vars == <<program, now, acked, profiles, dnd_error, opening, wallets, transactions,
          wallet_cache, history_cache, pc, data, form, result, codec_pc, given, codec_cp, codec_coins>>

dndVars == <<profiles, dnd_error>>
appVars == <<opening, wallets, transactions, wallet_cache, history_cache, pc, data, form,
             result>>
codecVars == <<codec_pc, given, codec_cp, codec_coins>>

----------------------------------------------------------------------------
(* Bounds and input sets *)

\* the most history records a run of DnDwallet.py creates
DnD_MaxTxns == 3

\* the most transactions rows a run of app.py inserts
MaxTxns == 2

Characters == {"Aria", "Bran"}
Sessions == {"s1", "s2"}

Coins(p, g, s, c) == [platinum |-> p, gold |-> g, silver |-> s, copper |-> c]

\* what the four number inputs may hold in DnDwallet.py
Amounts == { Coins(0, 0, 0, 0), Coins(0, 1, 0, 0), Coins(0, 0, 5, 0),
             Coins(0, 0, 4, 0), Coins(0, 1, 4, 0) }

\* what the four number inputs may hold in app.py
FormAmounts == { Coins(0, 0, 0, 0), Coins(0, 0, 5, 0) }

\* the rows of table wallets when app.py starts (the table is filled outside
\* the program, which has no registration): all zero, or balances that are
\* not in canonical form
Openings == { [c \in Characters |-> Coins(0, 0, 0, 0)],
              [c \in Characters |-> IF c = "Aria" THEN Coins(0, 0, 5, 0)
                                    ELSE Coins(0, 0, 15, 0)] }

TxnTypes == {"Add", "Deduct"}

\* what the label input may hold
Labels == {"", " ", "loot"}

\* the label tried in DnDwallet.py, which stores the label as typed (it may
\* be empty)
DnD_Labels == {""}

\* the largest total in copper pieces given to convert_from_cp
MaxCp == 2345

\* the largest value of one field given to convert_to_cp (fields above 9 are
\* not canonical)
MaxCoin == 15

\* what the new-character input may hold (DnDwallet.py)
ProfileNames == {""} \cup Characters

----------------------------------------------------------------------------
(* Denomination codec *)

\* DnDwallet.py convert_to_cp
DnD_convert_to_cp(platinum, gold, silver, copper) ==
    platinum * 1000 + gold * 100 + silver * 10 + copper

\* the decomposition with the silver field not reduced modulo 100
DnD_convert_from_cp_silver_unreduced(total_cp) ==
    [platinum |-> total_cp \div 1000,
     gold     |-> (total_cp % 1000) \div 100,
     silver   |-> total_cp \div 10,
     copper   |-> total_cp % 10]

\* DnDwallet.py convert_from_cp
DnD_convert_from_cp(total_cp) ==
    [platinum |-> total_cp \div 1000,
     gold     |-> (total_cp % 1000) \div 100,
     silver   |-> (total_cp % 100) \div 10,
     copper   |-> total_cp % 10]

\* app.py safe_int: int(x), and 0 for what int() refuses
safe_int(x) == IF x \in Int THEN x ELSE 0

\* the total with gold weighed as silver
convert_to_cp_gold_as_silver(platinum, gold, silver, copper) ==
    safe_int(platinum) * 1000 + safe_int(gold) * 10 + safe_int(silver) * 10
        + safe_int(copper)

\* app.py convert_to_cp
convert_to_cp(platinum, gold, silver, copper) ==
    safe_int(platinum) * 1000 + safe_int(gold) * 100 + safe_int(silver) * 10
        + safe_int(copper)

\* the breakdown with the gold field not reduced modulo 1000
convert_from_cp_gold_unreduced(total_cp) ==
    LET t == safe_int(total_cp)
    IN  [platinum |-> t \div 1000,
         gold     |-> t \div 100,
         silver   |-> (t % 100) \div 10,
         copper   |-> t % 10]

\* app.py convert_from_cp
convert_from_cp(total_cp) ==
    LET t == safe_int(total_cp)
    IN  [platinum |-> t \div 1000,
         gold     |-> (t % 1000) \div 100,
         silver   |-> (t % 100) \div 10,
         copper   |-> t % 10]

abs(n) == IF n < 0 THEN -n ELSE n

\* the base-unit value of a four-field amount (the spec's toBaseUnits), used
\* by the properties only
BaseUnits(a) == a.platinum * 1000 + a.gold * 100 + a.silver * 10 + a.copper

----------------------------------------------------------------------------
(* DnDwallet.py *)

\* the number of history records of the session
DnD_records == LET RECURSIVE Sum(_)
                   Sum(S) == IF S = {} THEN 0
                             ELSE LET x == CHOOSE y \in S : TRUE
                                  IN  Len(profiles[x].history) + Sum(S \ {x})
               IN  Sum(DOMAIN profiles)

\* the test of update_wallet made on the balance before the change
negative_balance_of_current(current_cp, change_cp) == current_cp < 0

\* the test of update_wallet: new_total_cp < 0
negative_balance(current_cp, change_cp) == current_cp + change_cp < 0

\* update_wallet(profile_name, change_cp, label)
update_wallet(profile_name, change_cp, label) ==
    LET wallet       == profiles[profile_name].wallet
        current_cp   == DnD_convert_to_cp(wallet.platinum, wallet.gold,
                                          wallet.silver, wallet.copper)
        new_total_cp == current_cp + change_cp
    IN  IF negative_balance(current_cp, change_cp)
        THEN /\ dnd_error' = "cannot have negative balance"
             /\ UNCHANGED <<profiles, now, acked>>
        ELSE /\ DnD_records < DnD_MaxTxns
             /\ now' = now + 1                  \* datetime.now()
             /\ profiles' = [profiles EXCEPT ![profile_name] =
                   [wallet  |-> DnD_convert_from_cp(new_total_cp),
                    history |-> Append(@.history,
                       [time   |-> now',
                        change |-> DnD_convert_from_cp(abs(change_cp)),
                        type   |-> IF change_cp > 0 THEN "Added" ELSE "Deducted",
                        label  |-> label])]]
             /\ dnd_error' = ""
             /\ acked' = Append(acked, <<profile_name, change_cp>>)

\* Create Profile that takes any non-empty name, replacing a profile of that name
CreateProfile_overwrites(new_profile) ==
    /\ program = "DnDwallet"
    /\ IF new_profile # ""
       THEN profiles' = [n \in DOMAIN profiles \cup {new_profile} |->
                           IF n = new_profile
                           THEN [wallet |-> Coins(0, 0, 0, 0), history |-> <<>>]
                           ELSE profiles[n]]
       ELSE profiles' = profiles
    /\ dnd_error' = ""
    /\ UNCHANGED <<program, now, acked>>
    /\ UNCHANGED <<appVars, codecVars>>

\* the Create Profile button
CreateProfile(new_profile) ==
    /\ program = "DnDwallet"
    /\ IF new_profile # "" /\ new_profile \notin DOMAIN profiles
       THEN profiles' = [n \in DOMAIN profiles \cup {new_profile} |->
                           IF n = new_profile
                           THEN [wallet |-> Coins(0, 0, 0, 0), history |-> <<>>]
                           ELSE profiles[n]]
       ELSE profiles' = profiles
    /\ dnd_error' = ""                \* the rerun draws the page anew
    /\ UNCHANGED <<program, now, acked>>
    /\ UNCHANGED <<appVars, codecVars>>

\* the Submit Transaction button, for the selected profile
SubmitTransaction(selected_profile, amount, change_type, label) ==
    /\ program = "DnDwallet"
    /\ selected_profile \in DOMAIN profiles
    /\ LET multiplier      == IF change_type = "Add" THEN 1 ELSE -1
           total_change_cp == multiplier * DnD_convert_to_cp(amount.platinum,
                                  amount.gold, amount.silver, amount.copper)
       IN  update_wallet(selected_profile, total_change_cp, label)
    /\ UNCHANGED program
    /\ UNCHANGED <<appVars, codecVars>>

\* the Transaction History column of the selected profile
DnD_history_view(selected_profile) ==
    LET history == profiles[selected_profile].history
    IN  [i \in 1..Len(history) |-> history[Len(history) + 1 - i]]

\* the Party-Wide Total section
DnD_party_total ==
    LET RECURSIVE Fold(_)
        Fold(S) == IF S = {} THEN 0
                   ELSE LET x == CHOOSE y \in S : TRUE
                            w == profiles[x].wallet
                        IN  DnD_convert_to_cp(w.platinum, w.gold, w.silver, w.copper)
                              + Fold(S \ {x})
    IN  DnD_convert_from_cp(Fold(DOMAIN profiles))

DnDNext ==
    \/ \E n \in ProfileNames : CreateProfile(n)
    \/ \E p \in Characters, a \in Amounts, ty \in TxnTypes, l \in DnD_Labels :
          SubmitTransaction(p, a, ty, l)

----------------------------------------------------------------------------
(* app.py *)

\* the local data of a session with no script run in progress; also the {}
\* that get_wallet_data returns when the select fails
NoData == [c \in {} |-> Coins(0, 0, 0, 0)]

\* the widget state of a run in which the form was not submitted
NoForm == [submitted |-> FALSE, character_name |-> "", amount |-> Coins(0, 0, 0, 0),
           txn_type |-> "Add", label |-> ""]

\* the widget states of a run started by Submit Transaction
Forms == [submitted : {TRUE}, character_name : Characters, amount : FormAmounts,
          txn_type : TxnTypes, label : Labels]

\* label.strip()
strip(label) == IF label = " " THEN "" ELSE label

\* limit(20) of get_history
HistoryLimit == 20

\* the select with the order left out: the first 20 rows as inserted
history_query_oldest_first(table) ==
    LET n == IF Len(table) < HistoryLimit THEN Len(table) ELSE HistoryLimit
    IN  [i \in 1..n |-> table[i]]

\* the select of get_history on a table: order("created_at", desc=True).limit(20)
history_query(table) ==
    LET n == IF Len(table) < HistoryLimit THEN Len(table) ELSE HistoryLimit
    IN  [i \in 1..n |-> table[Len(table) + 1 - i]]

\* @st.cache_data get_wallet_data(), called by session s: the cached value,
\* or the select (which may raise: {} is returned, and cached) stored in
\* the cache
get_wallet_data(s) ==
    \/ /\ wallet_cache # <<>>
       /\ data' = [data EXCEPT ![s] = wallet_cache[1]]
       /\ UNCHANGED wallet_cache
    \/ /\ wallet_cache = <<>>
       /\ data' = [data EXCEPT ![s] = wallets]
       /\ wallet_cache' = <<wallets>>
    \/ /\ wallet_cache = <<>>
       /\ data' = [data EXCEPT ![s] = NoData]
       /\ wallet_cache' = <<NoData>>

\* @st.cache_data get_history(): the cached value, or the select (which may
\* raise: [] is returned, and cached) stored in the cache
get_history ==
    \/ /\ history_cache # <<>>
       /\ UNCHANGED history_cache
    \/ /\ history_cache = <<>>
       /\ history_cache' = <<history_query(transactions)>>
    \/ /\ history_cache = <<>>
       /\ history_cache' = << <<>> >>

\* what get_history() returns in the current state when the select succeeds
history_view ==
    IF history_cache # <<>> THEN history_cache[1] ELSE history_query(transactions)

\* change_cp of the submitted form (lines 201, 205-206)
form_change_cp(f) ==
    LET change_cp  == convert_to_cp(f.amount.platinum, f.amount.gold,
                                    f.amount.silver, f.amount.copper)
        multiplier == IF f.txn_type = "Add" THEN 1 ELSE -1
    IN  multiplier * change_cp

\* current_cp of update_wallet_supabase: the base units of the row passed in
current_cp(character_wallet) ==
    convert_to_cp(character_wallet.platinum, character_wallet.gold,
                  character_wallet.silver, character_wallet.copper)

\* the funds check made on the balance alone, the change left out
insufficient_funds_ignores_change(character_wallet, change_cp) ==
    current_cp(character_wallet) < 0

\* Step 1 of update_wallet_supabase: the check for sufficient funds
insufficient_funds(character_wallet, change_cp) ==
    current_cp(character_wallet) + change_cp < 0

\* the st.error of Step 1
InsufficientFunds == "Insufficient funds for this transaction."

\* the st.error of the except branch of update_wallet_supabase
UpdateFailed == "Error updating wallet"

\* what the form handler displays before it reaches a write: "" when the
\* submit passes the label, zero and funds checks
form_rejection(d, f) ==
    IF strip(f.label) = "" THEN "Please provide a transaction label."
    ELSE IF form_change_cp(f) = 0 THEN "Transaction amount cannot be zero."
    ELSE IF insufficient_funds(d[f.character_name], form_change_cp(f))
         THEN InsufficientFunds
    ELSE ""

\* the record Step 2 of update_wallet_supabase inserts; created_at is the
\* table's default, the time of the insert
transaction_row(character_wallet_id, change_cp, label, txn_type, created_at) ==
    LET change_amounts == convert_from_cp(abs(change_cp))
    IN  [character_id    |-> character_wallet_id,
         description     |-> label,
         platinum_change |-> IF txn_type = "Add" THEN change_amounts.platinum
                             ELSE -change_amounts.platinum,
         gold_change     |-> IF txn_type = "Add" THEN change_amounts.gold
                             ELSE -change_amounts.gold,
         silver_change   |-> IF txn_type = "Add" THEN change_amounts.silver
                             ELSE -change_amounts.silver,
         copper_change   |-> IF txn_type = "Add" THEN change_amounts.copper
                             ELSE -change_amounts.copper,
         created_at      |-> created_at]

\* rows table transactions may hold when app.py starts: none, or one fewer
\* than get_history selects, left by earlier runs of the program
EarlierRows ==
    [i \in 1..(HistoryLimit - 1) |->
        transaction_row(IF i % 2 = 0 THEN "Aria" ELSE "Bran", 50, "earlier", "Add",
                        i - (HistoryLimit - 1))]

\* the rows of table transactions inserted since the start
written == SelectSeq(transactions, LAMBDA r : r.created_at > 0)

\* submits past their checks whose record is not inserted yet
Pending == {t \in Sessions : pc[t] = "insert"}

\* A script run starts in session s with widget state f: data =
\* get_wallet_data(); st.stop() without data; then the form handler up to its
\* first write: the label, zero and funds checks read the run's locals only.
StartRun(s, f) ==
    /\ program = "app"
    /\ \/ pc[s] = "idle" /\ f \in Forms \cup {NoForm}
       \/ pc[s] = "rerun" /\ f = NoForm
    /\ get_wallet_data(s)
    /\ (f.submitted /\ data'[s] # NoData /\ form_rejection(data'[s], f) = "")
          => Len(written) + Cardinality(Pending) < MaxTxns
    /\ IF data'[s] = NoData
       THEN /\ pc' = [pc EXCEPT ![s] = "idle"]
            /\ form' = [form EXCEPT ![s] = NoForm]
            /\ result' = [result EXCEPT ![s] = ""]
       ELSE IF f.submitted /\ form_rejection(data'[s], f) = ""
            THEN /\ form' = [form EXCEPT ![s] = f]
                 /\ result' = [result EXCEPT ![s] = ""]
                 /\ pc' = [pc EXCEPT ![s] = "insert"]
            ELSE /\ form' = [form EXCEPT ![s] = NoForm]
                 /\ result' = [result EXCEPT ![s] =
                       IF f.submitted THEN form_rejection(data'[s], f) ELSE ""]
                 /\ pc' = [pc EXCEPT ![s] = "tail"]
    /\ UNCHANGED <<program, now, acked, opening, wallets, transactions, history_cache>>
    /\ UNCHANGED <<dndVars, codecVars>>

\* the Refresh Data button: both caches cleared, st.rerun()
RefreshData(s) ==
    /\ program = "app"
    /\ pc[s] = "idle"
    /\ wallet_cache' = <<>>
    /\ history_cache' = <<>>
    /\ pc' = [pc EXCEPT ![s] = "rerun"]
    /\ UNCHANGED <<program, now, acked, opening, wallets, transactions, data, form, result>>
    /\ UNCHANGED <<dndVars, codecVars>>

\* Step 2 of update_wallet_supabase: the insert into transactions
InsertOk(s) ==
    /\ program = "app"
    /\ pc[s] = "insert"
    /\ now' = now + 1
    /\ transactions' = Append(transactions,
          transaction_row(form[s].character_name, form_change_cp(form[s]),
                          strip(form[s].label), form[s].txn_type, now'))
    /\ pc' = [pc EXCEPT ![s] = "update"]
    /\ UNCHANGED <<program, acked, opening, wallets, wallet_cache, history_cache, data, form,
                   result>>
    /\ UNCHANGED <<dndVars, codecVars>>

\* the insert raises: except Exception, return False
InsertFails(s) ==
    /\ program = "app"
    /\ pc[s] = "insert"
    /\ result' = [result EXCEPT ![s] = UpdateFailed]
    /\ pc' = [pc EXCEPT ![s] = "tail"]
    /\ UNCHANGED <<program, now, acked, opening, wallets, transactions, wallet_cache,
                   history_cache, data, form>>
    /\ UNCHANGED <<dndVars, codecVars>>

\* new_balance of Step 3: from the row the run read, not from the table
new_balance(character_wallet, change_cp) ==
    convert_from_cp(current_cp(character_wallet) + change_cp)

\* the update that writes back every row the run read, not the one of its id
UpdateOk_writes_all_rows(s) ==
    /\ program = "app"
    /\ pc[s] = "update"
    /\ wallets' = [data[s] EXCEPT ![form[s].character_name] =
          new_balance(data[s][form[s].character_name], form_change_cp(form[s]))]
    /\ wallet_cache' = <<>>
    /\ history_cache' = <<>>
    /\ result' = [result EXCEPT ![s] = "Transaction successful!"]
    /\ acked' = Append(acked, <<form[s].character_name, form_change_cp(form[s])>>)
    /\ pc' = [pc EXCEPT ![s] = "notify"]
    /\ UNCHANGED <<program, now, opening, transactions, data, form>>
    /\ UNCHANGED <<dndVars, codecVars>>

\* Steps 3 and 4 of update_wallet_supabase: the update of wallets, both
\* caches cleared, return True; then "Transaction successful!" (line 207)
UpdateOk(s) ==
    /\ program = "app"
    /\ pc[s] = "update"
    /\ wallets' = [wallets EXCEPT ![form[s].character_name] =
          new_balance(data[s][form[s].character_name], form_change_cp(form[s]))]
    /\ wallet_cache' = <<>>
    /\ history_cache' = <<>>
    /\ result' = [result EXCEPT ![s] = "Transaction successful!"]
    /\ acked' = Append(acked, <<form[s].character_name, form_change_cp(form[s])>>)
    /\ pc' = [pc EXCEPT ![s] = "notify"]
    /\ UNCHANGED <<program, now, opening, transactions, data, form>>
    /\ UNCHANGED <<dndVars, codecVars>>

\* the exception of line 214, which Streamlit displays on the page
NotificationError == "NameError: name 'final_balance_str' is not defined"

\* the notification block of the form handler (lines 208-216): the message
\* is an f-string that reads final_balance_str, a name bound nowhere in the
\* file, so building it raises NameError: the run ends there, before
\* send_discord_notification (line 216) and st.rerun() (line 219)
NotificationBlock(s) ==
    /\ program = "app"
    /\ pc[s] = "notify"
    /\ result' = [result EXCEPT ![s] = NotificationError]
    /\ pc' = [pc EXCEPT ![s] = "idle"]
    /\ data' = [data EXCEPT ![s] = NoData]
    /\ form' = [form EXCEPT ![s] = NoForm]
    /\ UNCHANGED <<program, now, acked, opening, wallets, transactions, wallet_cache,
                   history_cache>>
    /\ UNCHANGED <<dndVars, codecVars>>

\* the failed update taken for a success by the handler, which goes on to notify
UpdateFails_notifies(s) ==
    /\ program = "app"
    /\ pc[s] = "update"
    /\ result' = [result EXCEPT ![s] = UpdateFailed]
    /\ pc' = [pc EXCEPT ![s] = "notify"]
    /\ UNCHANGED <<program, now, acked, opening, wallets, transactions, wallet_cache,
                   history_cache, data, form>>
    /\ UNCHANGED <<dndVars, codecVars>>

\* the update raises: except Exception, return False (the caches stay)
UpdateFails(s) ==
    /\ program = "app"
    /\ pc[s] = "update"
    /\ result' = [result EXCEPT ![s] = UpdateFailed]
    /\ pc' = [pc EXCEPT ![s] = "tail"]
    /\ UNCHANGED <<program, now, acked, opening, wallets, transactions, wallet_cache,
                   history_cache, data, form>>
    /\ UNCHANGED <<dndVars, codecVars>>

\* a total that adds each denomination on its own, with no conversion
party_total_pointwise(d) ==
    LET RECURSIVE Sum(_)
        Sum(S) == IF S = {} THEN Coins(0, 0, 0, 0)
                  ELSE LET x == CHOOSE y \in S : TRUE
                           r == Sum(S \ {x})
                       IN  Coins(d[x].platinum + r.platinum, d[x].gold + r.gold,
                                 d[x].silver + r.silver, d[x].copper + r.copper)
    IN  Sum(DOMAIN d)

\* the Party Total section of a run: over the rows the run read
party_total(d) ==
    LET RECURSIVE Sum(_)
        Sum(S) == IF S = {} THEN 0
                  ELSE LET x == CHOOSE y \in S : TRUE
                       IN  convert_to_cp(d[x].platinum, d[x].gold, d[x].silver,
                                         d[x].copper) + Sum(S \ {x})
    IN  convert_from_cp(Sum(DOMAIN d))

\* the rest of the run after the form: the party total, then the history
\* section (get_history() when its checkbox is set), and the run ends
FinishRun(s) ==
    /\ program = "app"
    /\ pc[s] = "tail"
    /\ \/ get_history
       \/ UNCHANGED history_cache
    /\ pc' = [pc EXCEPT ![s] = "idle"]
    /\ data' = [data EXCEPT ![s] = NoData]
    /\ form' = [form EXCEPT ![s] = NoForm]
    /\ result' = [result EXCEPT ![s] = ""]
    /\ UNCHANGED <<program, now, acked, opening, wallets, transactions, wallet_cache>>
    /\ UNCHANGED <<dndVars, codecVars>>

\* ttl=30 of get_wallet_data runs out
ExpireWallets ==
    /\ program = "app"
    /\ wallet_cache # <<>>
    /\ wallet_cache' = <<>>
    /\ UNCHANGED <<program, now, acked, opening, wallets, transactions, history_cache, pc, data,
                   form, result>>
    /\ UNCHANGED <<dndVars, codecVars>>

\* ttl=60 of get_history runs out
ExpireHistory ==
    /\ program = "app"
    /\ history_cache # <<>>
    /\ history_cache' = <<>>
    /\ UNCHANGED <<program, now, acked, opening, wallets, transactions, wallet_cache, pc, data,
                   form, result>>
    /\ UNCHANGED <<dndVars, codecVars>>

AppNext ==
    \/ \E s \in Sessions, f \in Forms \cup {NoForm} : StartRun(s, f)
    \/ \E s \in Sessions : RefreshData(s)
    \/ \E s \in Sessions : InsertOk(s)
    \/ \E s \in Sessions : InsertFails(s)
    \/ \E s \in Sessions : UpdateOk(s)
    \/ \E s \in Sessions : NotificationBlock(s)
    \/ \E s \in Sessions : UpdateFails(s)
    \/ \E s \in Sessions : FinishRun(s)
    \/ ExpireWallets
    \/ ExpireHistory

----------------------------------------------------------------------------

Init ==
    /\ program \in {"DnDwallet", "app"}
    /\ now = 0
    /\ acked = <<>>
    /\ profiles = << >>
    /\ dnd_error = ""
    /\ opening \in Openings
    /\ wallets = opening
    /\ transactions \in (IF program = "app" THEN {<<>>, EarlierRows} ELSE {<<>>})
    /\ wallet_cache = <<>>
    /\ history_cache = <<>>
    /\ pc = [s \in Sessions |-> "idle"]
    /\ data = [s \in Sessions |-> NoData]
    /\ form = [s \in Sessions |-> NoForm]
    /\ result = [s \in Sessions |-> ""]
    /\ codec_pc = "none"
    /\ given = 0
    /\ codec_cp = 0
    /\ codec_coins = Coins(0, 0, 0, 0)

Next == DnDNext \/ AppNext

Spec == Init /\ [][Next]_vars

----------------------------------------------------------------------------
(* The codec on its own: the two conversions of either file composed *)

\* convert_from_cp of the file in use
from_cp(total_cp) ==
    IF program = "DnDwallet" THEN DnD_convert_from_cp(total_cp)
    ELSE convert_from_cp(total_cp)

\* convert_to_cp(**a) of the file in use
to_cp(a) ==
    IF program = "DnDwallet"
    THEN DnD_convert_to_cp(a.platinum, a.gold, a.silver, a.copper)
    ELSE convert_to_cp(a.platinum, a.gold, a.silver, a.copper)

\* convert_to_cp(**convert_from_cp(n))
RoundTripCp(n) ==
    /\ codec_pc' = "cp"
    /\ given' = n
    /\ codec_coins' = from_cp(n)
    /\ codec_cp' = to_cp(codec_coins')
    /\ UNCHANGED <<program, now, acked, dndVars, appVars>>

\* convert_from_cp(convert_to_cp(**a))
RoundTripCoins(a) ==
    /\ codec_pc' = "coins"
    /\ given' = a
    /\ codec_cp' = to_cp(a)
    /\ codec_coins' = from_cp(codec_cp')
    /\ UNCHANGED <<program, now, acked, dndVars, appVars>>

\* one conversion is made per behaviour
CodecNext ==
    /\ codec_pc = "none"
    /\ \/ \E n \in 0..MaxCp : RoundTripCp(n)
       \/ \E p, g, s, c \in 0..MaxCoin : RoundTripCoins(Coins(p, g, s, c))

\* the codec of either file, with no ledger
CodecInit ==
    /\ Init
    /\ opening = [c \in Characters |-> Coins(0, 0, 0, 0)]
    /\ transactions = <<>>

CodecSpec == CodecInit /\ [][CodecNext]_vars

----------------------------------------------------------------------------
(* Properties *)

\* a wallet's fields are the canonical decomposition of its base units
Canonical(a) ==
    /\ a.platinum >= 0
    /\ a.gold \in 0..9 /\ a.silver \in 0..9 /\ a.copper \in 0..9

\* the sum of the changes reported successful for character c
RECURSIVE AckedSumUpTo(_, _)
AckedSumUpTo(c, n) ==
    IF n = 0 THEN 0
    ELSE (IF acked[n][1] = c THEN acked[n][2] ELSE 0) + AckedSumUpTo(c, n - 1)

AckedSum(c) == AckedSumUpTo(c, Len(acked))

\* the signed base units of a transactions row
RowChange(r) == BaseUnits(Coins(r.platinum_change, r.gold_change, r.silver_change,
                                r.copper_change))

\* no script run of app.py is between the funds check and the end of
\* update_wallet_supabase
NoWriteInFlight == \A s \in Sessions : pc[s] \notin {"insert", "update"}

\* C1: in every reachable state every wallet's base-unit total
\* (platinum*1000 + gold*100 + silver*10 + copper) is >= 0, in the session
\* ledger of DnDwallet.py and in table wallets of app.py.
C1_NonNegativeBalances ==
    /\ \A p \in DOMAIN profiles : BaseUnits(profiles[p].wallet) >= 0
    /\ \A c \in Characters : BaseUnits(wallets[c]) >= 0

\* a wallet of app.py emptied by a deduction, and a later deduction refused
C1_Witness ==
    /\ program = "app"
    /\ \E c \in Characters :
          /\ BaseUnits(opening[c]) > 0
          /\ BaseUnits(wallets[c]) = 0
          /\ \E i \in 1..Len(acked) : acked[i][1] = c /\ acked[i][2] < 0
    /\ \E s \in Sessions :
          pc[s] = "tail" /\ result[s] = InsufficientFunds

C3_NoZeroRecord ==
    /\ \A p \in DOMAIN profiles : \A i \in 1..Len(profiles[p].history) :
          BaseUnits(profiles[p].history[i].change) # 0
    /\ \A i \in 1..Len(transactions) : RowChange(transactions[i]) # 0

\* the history h of a DnDwallet.py profile is the given list of
\* <<type, change>> pairs
HistoryIs(h, pairs) ==
    /\ Len(h) = Len(pairs)
    /\ \A i \in 1..Len(pairs) : h[i].type = pairs[i][1] /\ h[i].change = pairs[i][2]

Gold1 == Coins(0, 1, 0, 0)
Silver5 == Coins(0, 0, 5, 0)
Silver4 == Coins(0, 0, 4, 0)
Gold1Silver4 == Coins(0, 1, 4, 0)

\* a successful transaction sets the wallet to the canonical decomposition of
\* the balance it worked from plus the signed change (both programs)
SuccessSetsBalance ==
    /\ (program = "DnDwallet" /\ Len(acked') > Len(acked)) =>
          LET a == acked'[Len(acked')]
          IN  a[2] # 0 =>
                 /\ Canonical(profiles'[a[1]].wallet)
                 /\ BaseUnits(profiles'[a[1]].wallet)
                       = BaseUnits(profiles[a[1]].wallet) + a[2]
    /\ \A s \in Sessions :
          (pc[s] = "update" /\ pc'[s] = "notify") =>
              LET c == form[s].character_name
              IN  /\ Canonical(wallets'[c])
                  /\ BaseUnits(wallets'[c])
                        = BaseUnits(data[s][c]) + form_change_cp(form[s])

\* a deposit followed by a deduction of the same amount returns the wallet to
\* the balance before the deposit
DepositThenDeduct ==
    /\ (program = "DnDwallet" /\ Len(acked) >= 2) =>
          LET n == Len(acked)
          IN  (acked[n][1] = acked[n - 1][1] /\ acked[n - 1][2] > 0
                 /\ acked[n][2] = -acked[n - 1][2]) =>
                 BaseUnits(profiles[acked[n][1]].wallet)
                    = AckedSumUpTo(acked[n][1], n - 2)
    /\ \A c \in Characters : \A a \in FormAmounts :
          LET d  == BaseUnits(a)
              w1 == new_balance(wallets[c], d)
          IN  /\ ~insufficient_funds(w1, -d)
              /\ new_balance(w1, -d) = convert_from_cp(current_cp(wallets[c]))

\* the scenario as the claim has it: 1 gold deposited, the deduction of 5
\* silver is rejected
ScenarioAsClaimed ==
    \A p \in DOMAIN profiles :
          (HistoryIs(profiles[p].history, << <<"Added", Gold1>> >>)
             /\ profiles[p].wallet = Gold1) =>
             ~HistoryIs(profiles'[p].history,
                        << <<"Added", Gold1>>, <<"Deducted", Silver5>> >>)

\* the scenario as the programs run it: the deduction of 5 silver from 1 gold
\* is accepted (0/0/5/0), 4 silver more give 0/0/9/0, and the deduction of
\* 1 gold 4 silver is refused there
ScenarioAsCoded ==
    /\ \A p \in DOMAIN profiles :
          LET h == profiles[p].history
              w == profiles[p].wallet
              cp == DnD_convert_to_cp(w.platinum, w.gold, w.silver, w.copper)
          IN  /\ HistoryIs(h, << <<"Added", Gold1>> >>) =>
                    (w = Gold1 /\ ~negative_balance(cp, -BaseUnits(Silver5)))
              /\ HistoryIs(h, << <<"Added", Gold1>>, <<"Deducted", Silver5>> >>) =>
                    w = Coins(0, 0, 5, 0)
              /\ HistoryIs(h, << <<"Added", Gold1>>, <<"Deducted", Silver5>>,
                                 <<"Added", Silver4>> >>) =>
                    (w = Coins(0, 0, 9, 0)
                       /\ negative_balance(cp, -BaseUnits(Gold1Silver4)))
    /\ ~insufficient_funds(Gold1, -BaseUnits(Silver5))
    /\ insufficient_funds(Coins(0, 0, 9, 0), -BaseUnits(Gold1Silver4))

C5_NoHalfAppliedTransaction ==
    Len(written)
        <= Len(acked) + Cardinality({s \in Sessions : pc[s] = "update"})

\* C6: a transaction is computed from the authoritative stored balance, never
\* from a stale cached read: at each of its two writes the row the run works
\* from is the row in table wallets.
C6_WritesFromStoredBalance ==
    [][\A s \in Sessions :
          ((pc[s] = "insert" /\ pc'[s] = "update")
             \/ (pc[s] = "update" /\ pc'[s] = "notify")) =>
              data[s][form[s].character_name] = wallets[form[s].character_name]
      ]_vars

\* the number of transactions rows of character c with signed change d
Rows(c, d) ==
    Cardinality({i \in 1..Len(written) :
                    written[i].character_id = c /\ RowChange(written[i]) = d})

\* the number of successes of character c with signed change d
Acks(c, d) == Cardinality({i \in 1..Len(acked) : acked[i] = <<c, d>>})

\* C7: for every interleaving of the steps of the transactions on one
\* character the outcome is that of some serial order: once no transaction is
\* in flight, each balance is the opening balance plus the changes reported
\* successful, and each of them has its row in the history.
C7_SerialOutcome ==
    (program = "app" /\ NoWriteInFlight) =>
        \A c \in Characters :
            /\ BaseUnits(wallets[c]) = BaseUnits(opening[c]) + AckedSum(c)
            /\ \A i \in 1..Len(acked) :
                  acked[i][1] = c => Rows(c, acked[i][2]) >= Acks(c, acked[i][2])

\* earlier records are kept as they are: h is a prefix of g
IsPrefix(h, g) == Len(h) <= Len(g) /\ \A i \in 1..Len(h) : g[i] = h[i]

\* C8: a record is created exactly once per successful transaction and never
\* changed or deleted: each step keeps the earlier records as a prefix, and
\* with no transaction in flight the number of records is the number of
\* transactions reported successful (a failed one adds no record).
C8_OneRecordPerSuccess ==
    /\ [][ /\ IsPrefix(transactions, transactions')
           /\ \A p \in DOMAIN profiles :
                 IsPrefix(profiles[p].history, profiles'[p].history) ]_vars
    /\ [](program = "DnDwallet" => DnD_records = Len(acked))
    /\ []((program = "app" /\ NoWriteInFlight) => Len(written) = Len(acked))

\* h lists the limit most recent rows of table, most recent first: as many
\* rows as the limit allows, each later row strictly older, all taken from
\* the table, and no row left out that is as recent as one listed
MostRecentFirst(h, table, limit, at(_)) ==
    /\ Len(h) = (IF Len(table) < limit THEN Len(table) ELSE limit)
    /\ \A i, j \in 1..Len(h) : i < j => at(h[i]) > at(h[j])
    /\ \A i \in 1..Len(h) : \E k \in 1..Len(table) : table[k] = h[i]
    /\ \A k \in 1..Len(table) :
          (\A i \in 1..Len(h) : h[i] # table[k]) =>
              \A i \in 1..Len(h) : at(table[k]) < at(h[i])

created_at(r) == r.created_at
time(r) == r.time

\* C9: once the transactions made have all succeeded and none is in flight,
\* get_history() returns the most recent 20 rows of table transactions, the
\* most recent first (unless it has cached the empty list of a select that
\* raised); in every state what it has cached is that selection of the
\* table as it was when read; each profile's history view of
\* DnDwallet.py lists all of the profile's records, the most recent first;
\* and the history section changes no record.
C9_HistoryMostRecentFirst ==
    /\ []((/\ program = "app" /\ NoWriteInFlight /\ Len(written) = Len(acked)
            /\ history_cache # << <<>> >>) =>
             MostRecentFirst(history_view, transactions, HistoryLimit, created_at))
    /\ [](history_cache # <<>> =>
             \E k \in 0..Len(transactions) :
                 MostRecentFirst(history_cache[1], SubSeq(transactions, 1, k),
                                 HistoryLimit, created_at))
    /\ [](\A p \in DOMAIN profiles :
             /\ MostRecentFirst(DnD_history_view(p), profiles[p].history,
                                Len(profiles[p].history), time)
             /\ Len(DnD_history_view(p))
                   = Cardinality({i \in 1..Len(acked) : acked[i][1] = p}))
    /\ [][\A s \in Sessions :
             (pc[s] = "tail" /\ pc'[s] = "idle") =>
                 UNCHANGED <<transactions, wallets>>]_vars

\* C9 witness: two transactions on different characters have succeeded on
\* top of the earlier rows, the table holds more rows than the limit, and
\* get_history() has cached the 20 most recent, the last insert first
C9_Witness ==
    /\ program = "app" /\ NoWriteInFlight
    /\ Len(written) = 2 /\ Len(acked) = 2
    /\ written[1].character_id # written[2].character_id
    /\ Len(transactions) > HistoryLimit
    /\ history_cache # <<>>
    /\ Len(history_cache[1]) = HistoryLimit
    /\ history_cache[1][1] = written[2]
    /\ history_cache[1][2] = written[1]

\* the base units of all the rows of d, added up row by row
RECURSIVE TotalBaseUnits(_, _)
TotalBaseUnits(d, S) ==
    IF S = {} THEN 0
    ELSE LET x == CHOOSE y \in S : TRUE
         IN  BaseUnits(d[x]) + TotalBaseUnits(d, S \ {x})

\* t is the decomposition of the base units of the rows of d
IsTotalOf(t, d) == Canonical(t) /\ BaseUnits(t) = TotalBaseUnits(d, DOMAIN d)

\* C10: the party total is the canonical decomposition of the sum of the
\* base units of every wallet: of the profiles in DnDwallet.py, and in app.py
\* of the rows the run read, which are the stored rows at the time of the
\* read; wallets of 1 platinum and of 2 gold 5 silver total 1 platinum 2 gold
\* 5 silver 0 copper; and the section changes no wallet and no record.
C10_PartyTotal ==
    /\ [](program = "DnDwallet" =>
             IsTotalOf(DnD_party_total, [p \in DOMAIN profiles |-> profiles[p].wallet]))
    /\ [](\A s \in Sessions : pc[s] = "tail" => IsTotalOf(party_total(data[s]), data[s]))
    /\ [](party_total([c \in Characters |-> IF c = "Aria" THEN Coins(1, 0, 0, 0)
                                            ELSE Coins(0, 2, 5, 0)])
             = Coins(1, 2, 5, 0))
    /\ [][\A s \in Sessions :
             /\ (pc[s] \in {"idle", "rerun"} /\ pc'[s] = "tail") =>
                   party_total(data'[s]) = party_total(wallets)
             /\ (pc[s] = "tail" /\ pc'[s] = "idle") =>
                   UNCHANGED <<wallets, transactions, profiles>>]_vars

\* C10 witness: a run of app.py has read wallets of 5 silver and 15 silver
\* and is at its Party Total section, which shows 2 gold
C10_Witness ==
    \E s \in Sessions :
        /\ pc[s] = "tail"
        /\ data[s] = [c \in Characters |-> IF c = "Aria" THEN Coins(0, 0, 5, 0)
                                           ELSE Coins(0, 0, 15, 0)]
        /\ party_total(data[s]) = Coins(0, 2, 0, 0)

\* C11: for every n >= 0, converting the breakdown of n back to copper
\* pieces gives n, with the codec of either file.
C11_RoundTrip == codec_pc = "cp" => (given >= 0 /\ codec_cp = given)

\* C11 witness: the round trip of a total with a platinum piece and a coin of
\* every other denomination
C11_Witness ==
    /\ codec_pc = "cp" /\ program = "app"
    /\ given = 1234 /\ codec_coins = Coins(1, 2, 3, 4) /\ codec_cp = 1234

\* C12: for every amount a with non-negative fields, the breakdown of its
\* total is canonical (gold, silver and copper in 0..9, platinum >= 0 taking
\* the overflow) and has the base-unit value of a.
C12_CanonicalDecomposition ==
    codec_pc = "coins" =>
        /\ Canonical(codec_coins)
        /\ BaseUnits(codec_coins) = BaseUnits(given)
        /\ codec_coins.platinum = BaseUnits(given) \div 1000

\* C12 witness: 15 silver with 11 gold and 10 copper is broken down to
\* 1 platinum 2 gold 6 silver 0 copper
C12_Witness ==
    /\ codec_pc = "coins" /\ program = "app"
    /\ given = Coins(0, 11, 15, 10)
    /\ codec_coins = Coins(1, 2, 6, 0)

\* C13: Create Profile with a name already present, or with an empty name,
\* leaves every profile as it is and creates none; with a new non-empty name
\* it creates a profile with a wallet of four zeros and an empty history and
\* leaves the other profiles as they are; no step removes a profile.
C13_RegisterCharacter ==
    [][ /\ \A n \in ProfileNames :
              CreateProfile(n) =>
                  IF n = "" \/ n \in DOMAIN profiles
                  THEN profiles' = profiles
                  ELSE /\ DOMAIN profiles' = DOMAIN profiles \cup {n}
                       /\ profiles'[n] = [wallet |-> Coins(0, 0, 0, 0), history |-> <<>>]
                       /\ \A p \in DOMAIN profiles : profiles'[p] = profiles[p]
        /\ DOMAIN profiles \subseteq DOMAIN profiles'
        /\ \A n \in DOMAIN profiles' \ DOMAIN profiles :
              /\ profiles'[n] = [wallet |-> Coins(0, 0, 0, 0), history |-> <<>>]
              /\ \A p \in DOMAIN profiles : profiles'[p] = profiles[p]
      ]_vars

\* C13 witness: Aria holds coins and a history, and Bran is registered with
\* four zeros and no history beside her
C13_Witness ==
    /\ DOMAIN profiles = {"Aria", "Bran"}
    /\ BaseUnits(profiles["Aria"].wallet) > 0
    /\ Len(profiles["Aria"].history) > 0
    /\ profiles["Bran"] = [wallet |-> Coins(0, 0, 0, 0), history |-> <<>>]

\* C14: a failure of the notification (a failure while building the message
\* included) is never shown to the user and does not cut the ledger
\* operation short: no session's page displays an exception raised by the
\* notification block after a transaction reported successful.
C14_NotificationFailureHidden ==
    \A s \in Sessions : result[s] # NotificationError

\* the last element of a non-empty sequence
Last(h) == h[Len(h)]

\* the four amount fields of a transactions row
RowAmount(r) == Coins(r.platinum_change, r.gold_change, r.silver_change, r.copper_change)

\* a holds no negative field, is canonical and is worth k base units
IsMagnitude(a, k) ==
    /\ a.platinum >= 0 /\ a.gold >= 0 /\ a.silver >= 0 /\ a.copper >= 0
    /\ Canonical(a)
    /\ BaseUnits(a) = k

\* C15: every record appended by a successful transaction carries the
\* unsigned magnitude of the change (four non-negative fields, the breakdown
\* of |delta|), and its direction flag is Added exactly when the direction
\* was Add and Deducted exactly when it was Deduct (for a change that is not
\* zero: a zero change is C3's case).
C15_RecordMagnitudeAndDirection ==
    [][ /\ \A p \in Characters, a \in Amounts, ty \in TxnTypes, l \in DnD_Labels :
              (/\ SubmitTransaction(p, a, ty, l)
               /\ BaseUnits(a) # 0
               /\ Len(profiles'[p].history) > Len(profiles[p].history)) =>
                  /\ IsMagnitude(Last(profiles'[p].history).change, BaseUnits(a))
                  /\ Last(profiles'[p].history).type
                        = (IF ty = "Add" THEN "Added" ELSE "Deducted")
        /\ \A s \in Sessions :
              (pc[s] = "insert" /\ pc'[s] = "update") =>
                  IsMagnitude(RowAmount(Last(transactions')),
                              abs(form_change_cp(form[s])))
      ]_vars

\* C16: when an operation that wrote to the store completes (both writes
\* made, or the insert alone), the caches hold nothing read before the
\* write: each is empty, holds what the store holds now, or holds the empty
\* value of a read that failed.
C16_CachesInvalidatedAfterWrite ==
    [][\A s \in Sessions :
          (pc[s] = "update" /\ pc'[s] # "update") =>
              /\ wallet_cache' = <<>> \/ wallet_cache'[1] \in {wallets', NoData}
              /\ history_cache' = <<>>
                    \/ history_cache'[1] \in {history_query(transactions'), <<>>}
      ]_vars

\* the rows of table transactions of character c, in order
RowsOf(c) == SelectSeq(transactions, LAMBDA r : r.character_id = c)

\* C17: a transaction on one character, accepted or rejected, leaves the
\* balance and the records of every other character as they were, in both
\* programs; and in app.py a character with one successful transaction holds
\* its opening balance plus that change whatever was done, before, after or
\* in between, to the other characters.
C17_CharactersIndependent ==
    /\ [][ /\ \A p \in Characters, a \in Amounts, ty \in TxnTypes, l \in DnD_Labels :
                 SubmitTransaction(p, a, ty, l) =>
                     \A q \in DOMAIN profiles \ {p} : profiles'[q] = profiles[q]
           /\ \A s \in Sessions :
                 (pc[s] \in {"insert", "update"} /\ pc'[s] # pc[s]) =>
                     \A q \in Characters \ {form[s].character_name} :
                         /\ wallets'[q] = wallets[q]
                         /\ RowsOf(q)' = RowsOf(q)
           /\ (\A s \in Sessions : pc[s] \in {"insert", "update"} => pc'[s] = pc[s]) =>
                 UNCHANGED <<wallets, transactions>>
         ]_vars
    /\ [](program = "app" =>
             \A c \in Characters :
                 Cardinality({i \in 1..Len(acked) : acked[i][1] = c}) = 1 =>
                     BaseUnits(wallets[c]) = BaseUnits(opening[c]) + AckedSum(c))

\* C17 witness: one session has committed a transaction on one character
\* while the other, which read the rows before that commit, is between its
\* two writes on another character, and that one commits too
C17_Witness ==
    /\ program = "app"
    /\ Len(acked) = 2 /\ acked[1][1] # acked[2][1]
    /\ \A c \in Characters : BaseUnits(wallets[c]) = BaseUnits(opening[c]) + 50
    /\ \E s \in Sessions :
          pc[s] = "notify" /\ data[s][acked[1][1]] # wallets[acked[1][1]]

\* the signed base units of a DnDwallet.py record: Added counts up, Deducted down
RecordChange(h) == IF h.type = "Added" THEN BaseUnits(h.change) ELSE -BaseUnits(h.change)

\* the signed base units of the first n records of a profile's history
RECURSIVE HistorySum(_, _)
HistorySum(history, n) ==
    IF n = 0 THEN 0 ELSE RecordChange(history[n]) + HistorySum(history, n - 1)

\* the signed base units of the first n rows of a table
RECURSIVE RowSum(_, _)
RowSum(rows, n) ==
    IF n = 0 THEN 0 ELSE RowChange(rows[n]) + RowSum(rows, n - 1)

\* C18: starting from wallets of four zeros and no records, each wallet's
\* base units are the sum of its Added records minus the sum of its Deducted
\* ones, after any accepted, rejected and storage-failed transactions (in
\* app.py: whenever no transaction is between its two writes).
C18_LedgerConsistency ==
    /\ \A p \in DOMAIN profiles :
          BaseUnits(profiles[p].wallet)
             = HistorySum(profiles[p].history, Len(profiles[p].history))
    /\ (/\ program = "app" /\ NoWriteInFlight
        /\ \A c \in Characters : BaseUnits(opening[c]) = 0
        /\ written = transactions) =>
           \A c \in Characters :
               BaseUnits(wallets[c]) = RowSum(RowsOf(c), Len(RowsOf(c)))

\* what a run displays when its transaction is rejected or fails in the store
Refusals == {"Please provide a transaction label.", "Transaction amount cannot be zero.",
             InsufficientFunds, UpdateFailed}

\* C19: a run enters the notification block only by the step that completes
\* update_wallet_supabase with success, when the record of its transaction is
\* in table transactions and the balance has been written; a run rejected for
\* an empty label, a zero amount or insufficient funds, or failed by a storage
\* error, goes to the end of the page without entering it.
C19_NotificationAfterCommit ==
    /\ [][\A s \in Sessions :
             /\ (pc'[s] = "notify" /\ pc[s] # "notify") =>
                   LET c == form[s].character_name
                       d == form_change_cp(form[s])
                   IN  /\ pc[s] = "update"
                       /\ result'[s] = "Transaction successful!"
                       /\ acked' = Append(acked, <<c, d>>)
                       /\ \E i \in 1..Len(transactions') :
                             /\ transactions'[i].character_id = c
                             /\ RowChange(transactions'[i]) = d
                       /\ BaseUnits(wallets'[c]) = BaseUnits(data[s][c]) + d
             /\ (pc'[s] # pc[s] /\ result'[s] \in Refusals) => pc'[s] = "tail"
             /\ (pc[s] = "tail") => pc'[s] \in {"tail", "idle"}
          ]_vars
    /\ [](\A s \in Sessions :
             pc[s] = "notify" \/ result[s] = NotificationError => Len(acked) > 0)

\* C19 witness: one run is in the notification block after its transaction
\* was committed, and another run, rejected for insufficient funds, is at
\* the end of its page
C19_Witness ==
    \E s, t \in Sessions :
        /\ pc[s] = "notify" /\ result[s] = "Transaction successful!"
        /\ Last(acked) = <<form[s].character_name, form_change_cp(form[s])>>
        /\ pc[t] = "tail" /\ result[t] = InsufficientFunds

====
